---- MODULE Spec2Model ----
(***************************************************************************)
(* A model of the CLARO energy simulator (src/src/claro/simulate.py) and   *)
(* of the feature builder (src/src/claro/build_features.py).               *)
(*                                                                         *)
(* Python floats are modelled in fixed point: an integer x stands for the  *)
(* real x / Scale.  Products are rounded to the nearest unit.  math.sin    *)
(* and math.exp are tabulated on the half-hour grid of the day and on the  *)
(* days of the year, so timestamps are taken with minute 0 or 30.  All     *)
(* dates lie in the year 2025 (the year of the default start).             *)
(***************************************************************************)
EXTENDS Integers, Sequences, FiniteSets, TLC

\* ------------------------------------------------------------ bounds
\* n_days ranges over 0..MaxDays
MaxDays == 2
\* seed ranges over 0..MaxSeed
MaxSeed == 2

\* ------------------------------------------------------------- state
\* cfg, start: the arguments of simulate(); pc, call: where the program is
\* and how many simulate() calls were made; rng, times, rows, y_prev: the
\* locals of simulate(); steps: the intermediate values of every iteration
\* of the running call; results: the lists simulate() returned; fs: the
\* directories and files on disk; csv_call: the out_path of the write_csv
\* call and the exception it raised; path_in, path_out, fcfg, built: the
\* arguments and the outcome of build_from_simulated; regime: the value
\* simulate_open_regime returned
VARIABLES cfg, start, pc, call, rng, times, rows, steps, y_prev, results,
          fs, csv_call, path_in, path_out, fcfg, built, regime

vars == <<cfg, start, pc, call, rng, times, rows, steps, y_prev, results,
          fs, csv_call, path_in, path_out, fcfg, built, regime>>

\* ------------------------------------------------------ fixed point
Scale == 10 ^ 5

\* the float literal units.thousandths, e.g. Dec(1, 100) is 1.10
Dec(units, thousandths) == units * Scale + thousandths * (Scale \div 1000)

Abs(x) == IF x < 0 THEN -x ELSE x

\* a * b / Scale for a, b >= 0, rounded to nearest, without leaving 32 bits
FMulMag(a, b) ==
  LET a1 == a \div 1000
      a0 == a % 1000
      b1 == b \div 1000
      b0 == b % 1000
      m  == a1 * b0 + a0 * b1
      l  == a0 * b0 + (Scale \div 2)
  IN  10 * a1 * b1 + (m * 10 + l \div 100) \div 1000

\* float multiplication
FMul(a, b) ==
  IF (a < 0) = (b < 0) THEN FMulMag(Abs(a), Abs(b)) ELSE -FMulMag(Abs(a), Abs(b))

\* Python's max(a, b) and min(a, b) on floats
Max(a, b) == IF b > a THEN b ELSE a
Min(a, b) == IF b < a THEN b ELSE a

\* Scale = 2^5 * ScaleOdd
ScaleOdd == 5 ^ 5

RECURSIVE Log2Floor(_)
Log2Floor(n) == IF n < 2 THEN 0 ELSE 1 + Log2Floor(n \div 2)

\* the least u with k * 2^u >= ScaleOdd, for 0 < k
RECURSIVE ShiftsUp(_)
ShiftsUp(k) == IF k >= ScaleOdd THEN 0 ELSE 1 + ShiftsUp(2 * k)

\* 2^s modulo ScaleOdd
RECURSIVE PowMod2(_)
PowMod2(s) == IF s = 0 THEN 1 ELSE (2 * PowMod2(s - 1)) % ScaleOdd

\* The float that stands for k units (k > 0) is the double nearest to
\* k / Scale: 1 when that double is above k / Scale, -1 when it is below,
\* 0 when k / Scale is a double.  With t = floor(log2(k / ScaleOdd)) the
\* 53-bit significand is k * 2^(52 - t) / ScaleOdd rounded to nearest.
DoubleErrorSign(k) ==
  LET t == IF k >= ScaleOdd THEN Log2Floor(k \div ScaleOdd) ELSE -ShiftsUp(k)
      r == ((k % ScaleOdd) * PowMod2(52 - t)) % ScaleOdd
  IN  IF r = 0 THEN 0 ELSE IF 2 * r > ScaleOdd THEN 1 ELSE -1

\* round(x, d), q = Scale / 10^d: the multiple of q nearest to the double
\* that x stands for; on a decimal tie the side the double lies on, and
\* the even multiple when the double is the tie itself
RoundTo(x, q) ==
  LET a  == Abs(x)
      r  == a % q
      lo == a - r
      m  == IF 2 * r < q THEN lo
            ELSE IF 2 * r > q THEN lo + q
            ELSE IF DoubleErrorSign(a) > 0 THEN lo + q
            ELSE IF DoubleErrorSign(a) < 0 THEN lo
            ELSE IF (lo \div q) % 2 = 0 THEN lo ELSE lo + q
  IN  IF x < 0 THEN -m ELSE m

Round3(x) == RoundTo(x, Scale \div 1000)
Round4(x) == RoundTo(x, Scale \div 10000)

\* ------------------------------------------------------------- time
\* A datetime of 2025 is [doy, minute, second]: day of the year (1..365),
\* minute of the day (0..1439) and second (0..59).
MinutesPerDay == 24 * 60

Datetime(doy, hh, mm, ss) == [doy |-> doy, minute |-> hh * 60 + mm, second |-> ss]

\* ts + timedelta(minutes = k)
AddMinutes(ts, k) ==
  LET total == ts.minute + k
  IN  [doy |-> ts.doy + total \div MinutesPerDay,
       minute |-> total % MinutesPerDay,
       second |-> ts.second]

\* ts.weekday(): 0 = Monday ... 6 = Sunday (2025-01-01 is a Wednesday)
Weekday(ts) == (ts.doy + 1) % 7

\* ts.timetuple().tm_yday
DayOfYear(ts) == ts.doy

\* ts.hour + ts.minute / 60.0
HourOf(ts) ==
  LET hh == ts.minute \div 60
      mm == ts.minute % 60
  IN  hh * Scale + (mm * Scale + 30) \div 60

\* index of ts on the half-hour grid of the day, 1..48
HalfHour(ts) == ts.minute \div 30 + 1

\* cumulative days before each month of 2025
DaysBeforeMonth == <<0, 31, 59, 90, 120, 151, 181, 212, 243, 273, 304, 334, 365>>

MonthOf(doy) == CHOOSE m \in 1..12 : DaysBeforeMonth[m] < doy /\ doy <= DaysBeforeMonth[m + 1]

\* ts.isoformat(): the fields of "YYYY-MM-DDTHH:MM:SS"
IsoFormat(ts) ==
  LET m == MonthOf(ts.doy)
  IN  <<2025, m, ts.doy - DaysBeforeMonth[m], ts.minute \div 60, ts.minute % 60, ts.second>>

DaysInMonth(m) == DaysBeforeMonth[m + 1] - DaysBeforeMonth[m]

\* whether pd.to_datetime(errors="coerce") parses the cell: NaT when a
\* field of the string is out of its range
ParsesAsDatetime(iso) ==
  /\ iso[2] \in 1..12
  /\ iso[3] \in 1..DaysInMonth(iso[2])
  /\ iso[4] \in 0..23
  /\ iso[5] \in 0..59
  /\ iso[6] \in 0..59

\* pd.to_datetime of an ISO string: seconds since 2025-01-01T00:00:00
ToDatetime(iso) ==
  (((DaysBeforeMonth[iso[2]] + iso[3] - 1) * 24 + iso[4]) * 60 + iso[5]) * 60 + iso[6]


\* the ISO fields of the datetime that lies secs seconds after
\* 2025-01-01T00:00:00
DatetimeOf(secs) ==
  LET doy == secs \div (MinutesPerDay * 60) + 1
      rest == secs % (MinutesPerDay * 60)
      m == MonthOf(doy)
  IN  <<2025, m, doy - DaysBeforeMonth[m], rest \div 3600, (rest % 3600) \div 60, rest % 60>>

\* ------------------------------------------------- signal generators
\* round(Scale * sin(2 pi (h - 5) / 24)) for h = 0.0, 0.5, ..., 23.5
SinDailyTable ==
  <<
    -96593, -92388, -86603, -79335, -70711, -60876, -50000, -38268,
    -25882, -13053, 0, 13053, 25882, 38268, 50000, 60876,
    70711, 79335, 86603, 92388, 96593, 99144, 100000, 99144,
    96593, 92388, 86603, 79335, 70711, 60876, 50000, 38268,
    25882, 13053, 0, -13053, -25882, -38268, -50000, -60876,
    -70711, -79335, -86603, -92388, -96593, -99144, -100000, -99144
  >>
\* round(Scale * sin(2 pi d / 365)) for d = 1 .. 366
SinSeasonalTable ==
  <<
    1721, 3442, 5162, 6880, 8596, 10310, 12021, 13728, 15431, 17129,
    18823, 20510, 22192, 23867, 25535, 27196, 28848, 30492, 32127, 33752,
    35368, 36972, 38566, 40149, 41719, 43278, 44823, 46355, 47873, 49378,
    50867, 52342, 53801, 55244, 56670, 58080, 59473, 60848, 62205, 63543,
    64863, 66163, 67444, 68705, 69946, 71166, 72364, 73542, 74697, 75831,
    76941, 78030, 79095, 80136, 81154, 82148, 83117, 84062, 84982, 85876,
    86746, 87589, 88407, 89198, 89963, 90701, 91413, 92097, 92754, 93384,
    93986, 94560, 95106, 95623, 96113, 96574, 97006, 97410, 97785, 98131,
    98447, 98735, 98993, 99222, 99422, 99592, 99732, 99844, 99925, 99977,
    99999, 99992, 99955, 99888, 99792, 99666, 99511, 99326, 99111, 98868,
    98595, 98293, 97961, 97601, 97212, 96794, 96347, 95872, 95368, 94836,
    94276, 93688, 93072, 92429, 91758, 91060, 90336, 89584, 88806, 88001,
    87171, 86314, 85432, 84525, 83593, 82635, 81654, 80648, 79618, 78565,
    77488, 76389, 75267, 74122, 72956, 71768, 70558, 69328, 68077, 66806,
    65516, 64205, 62876, 61528, 60162, 58779, 57377, 55959, 54524, 53073,
    51606, 50124, 48627, 47116, 45591, 44052, 42500, 40936, 39359, 37771,
    36171, 34561, 32941, 31311, 29671, 28023, 26367, 24702, 23031, 21352,
    19667, 17977, 16281, 14580, 12875, 11166, 9454, 7739, 6021, 4302,
    2582, 861, -861, -2582, -4302, -6021, -7739, -9454, -11166, -12875,
    -14580, -16281, -17977, -19667, -21352, -23031, -24702, -26367, -28023, -29671,
    -31311, -32941, -34561, -36171, -37771, -39359, -40936, -42500, -44052, -45591,
    -47116, -48627, -50124, -51606, -53073, -54524, -55959, -57377, -58779, -60162,
    -61528, -62876, -64205, -65516, -66806, -68077, -69328, -70558, -71768, -72956,
    -74122, -75267, -76389, -77488, -78565, -79618, -80648, -81654, -82635, -83593,
    -84525, -85432, -86314, -87171, -88001, -88806, -89584, -90336, -91060, -91758,
    -92429, -93072, -93688, -94276, -94836, -95368, -95872, -96347, -96794, -97212,
    -97601, -97961, -98293, -98595, -98868, -99111, -99326, -99511, -99666, -99792,
    -99888, -99955, -99992, -99999, -99977, -99925, -99844, -99732, -99592, -99422,
    -99222, -98993, -98735, -98447, -98131, -97785, -97410, -97006, -96574, -96113,
    -95623, -95106, -94560, -93986, -93384, -92754, -92097, -91413, -90701, -89963,
    -89198, -88407, -87589, -86746, -85876, -84982, -84062, -83117, -82148, -81154,
    -80136, -79095, -78030, -76941, -75831, -74697, -73542, -72364, -71166, -69946,
    -68705, -67444, -66163, -64863, -63543, -62205, -60848, -59473, -58080, -56670,
    -55244, -53801, -52342, -50867, -49378, -47873, -46355, -44823, -43278, -41719,
    -40149, -38566, -36972, -35368, -33752, -32127, -30492, -28848, -27196, -25535,
    -23867, -22192, -20510, -18823, -17129, -15431, -13728, -12021, -10310, -8596,
    -6880, -5162, -3442, -1721, 0, 1721
  >>
\* round(Scale * exp(-(h - 13)^2 / (2 * 3.5^2))) for h = 0.0, 0.5, ..., 23.5
ExpMiddayTable ==
  <<
    101, 170, 280, 453, 716, 1111, 1688, 2513,
    3666, 5239, 7337, 10067, 13534, 17826, 23007, 29092,
    36045, 43756, 52045, 60653, 69257, 77484, 84937, 91225,
    96001, 98985, 100000, 98985, 96001, 91225, 84937, 77484,
    69257, 60653, 52045, 43756, 36045, 29092, 23007, 17826,
    13534, 10067, 7337, 5239, 3666, 2513, 1688, 1111
  >>
\* round(Scale * exp(-(h - 18)^2 / (2 * 2.8^2))) for h = 0.0, 0.5, ..., 23.5
ExpEveningTable ==
  <<
    0, 0, 0, 0, 0, 0, 0, 0,
    0, 1, 2, 5, 10, 22, 45, 88,
    170, 316, 571, 997, 1688, 2767, 4394, 6758,
    10067, 14526, 20303, 27487, 36045, 45783, 56328, 67126,
    77484, 86633, 93822, 98418, 100000, 98418, 93822, 86633,
    77484, 67126, 56328, 45783, 36045, 27487, 20303, 14526
  >>
\* clamp without its lower bound
ClampNoLower(x, lo, hi) == Min(hi, x)

\* clamp without its upper bound
ClampNoUpper(x, lo, hi) == Max(lo, x)

clamp(x, lo, hi) == Max(lo, Min(hi, x))


\* the grid one step late: start + step * (i + 1)
TimeIndexFromOne(origin, n_steps, step_minutes) ==
  [i \in 1..Max(0, n_steps) |-> AddMinutes(origin, step_minutes * i)]

generate_time_index(origin, n_steps, step_minutes) ==
  [i \in 1..Max(0, n_steps) |-> AddMinutes(origin, step_minutes * (i - 1))]

simulate_outdoor_temp(ts) ==
  LET seasonal_amp == Dec(9, 0)
      daily_amp == Dec(3, 500)
      seasonal == Dec(8, 0) + FMul(seasonal_amp, SinSeasonalTable[DayOfYear(ts)])
      daily == FMul(daily_amp, SinDailyTable[HalfHour(ts)])
  IN  seasonal + daily

\* the regime with the closing instants counted as open
OpenRegimeClosedInterval(ts) ==
  LET weekday == Weekday(ts)
      hour == HourOf(ts)
  IN  IF weekday <= 4
      THEN (IF Dec(8, 0) <= hour /\ hour <= Dec(22, 0) THEN 1 ELSE 0)
      ELSE (IF Dec(10, 0) <= hour /\ hour <= Dec(18, 0) THEN 1 ELSE 0)

simulate_open_regime(ts) ==
  LET weekday == Weekday(ts)
      hour == HourOf(ts)
  IN  IF weekday <= 4
      THEN (IF Dec(8, 0) <= hour /\ hour < Dec(22, 0) THEN 1 ELSE 0)
      ELSE (IF Dec(10, 0) <= hour /\ hour < Dec(18, 0) THEN 1 ELSE 0)

temp_pressure(temp_out) ==
  LET comfort_low == Dec(20, 0)
      comfort_high == Dec(23, 0)
  IN  IF temp_out < comfort_low THEN comfort_low - temp_out
      ELSE IF temp_out > comfort_high THEN temp_out - comfort_high
      ELSE 0

\* ---------------------------------------------------- random source
\* random.Random(seed).normalvariate(mu, sigma) returns mu + z * sigma with
\* z the next standard deviate of the seed's stream; the deviate does not
\* depend on mu and sigma.  The streams of CPython's generator are
\* tabulated for the seeds the configurations use, as round(Scale * z):
\* the first 288 deviates for the seeds 0 to 3, the first 2880 for seed 123.
NormalStream0 ==
  <<
    -18387, 3250, 69883, -9637, 141351, -153264, 27094, -120553, -5314, -29022,
    -29282, -210739, 8473, 62695, 167933, 83407, -231506, -122542, 94218, -105855,
    20282, -149459, 78302, 117350, 27082, 26855, 18288, -65520, 56348, -4424,
    11442, 48618, 165213, 183577, -24962, 54838, 37675, 144118, -164176, -84257,
    75714, 60258, -200669, -183079, 151007, 31830, 58831, 21403, -81733, -142532,
    -92373, -135644, -31332, 649, -80407, 245751, 90101, -106075, -11993, -8249,
    24128, -50318, 77332, 10527, 62406, -108379, -35599, 60553, 60443, -42048,
    -37351, 37935, 149138, -24566, 59515, 29191, -12656, -124305, -4981, -1351,
    -29744, 24911, -52393, -40097, 117386, 202673, -19291, -70653, -131253, 39616,
    88408, 70307, 143098, 92659, 191981, -47356, -121393, -135848, 56645, 21567,
    -59660, 11771, -4949, 4256, -24739, -16244, 133283, -51490, 59709, -128121,
    34821, 45658, -139279, 5912, -4703, 53313, -184008, -18394, -25694, -108591,
    98008, -75644, -46128, -50432, 128396, 105596, -533, 36561, 24105, -193240,
    140818, 193947, -34626, -175176, 162403, 138288, 39427, 216154, 87685, 15137,
    107910, 81659, 99676, 149069, 1578, 108992, -83018, -89680, -136759, -10254,
    114133, -39266, -20399, -5885, 24920, 12904, -89456, -13988, 35456, 34281,
    -203006, 99019, 200347, 110655, 60400, 87137, 80846, 53722, -23991, 15710,
    58724, -37673, -29264, -16066, 176781, -145513, 32974, 41432, -115039, -123806,
    85218, -155235, -134012, 75790, -101434, 125490, -6458, 28576, 16441, 76331,
    -179964, -61778, -126286, 33617, -106206, 25667, -15011, -26898, 57623, -71858,
    -100425, 70354, 32012, 91581, -74734, -15577, -126977, -114067, 45586, 89538,
    124192, 9191, 66955, 127410, -192912, -106023, 10703, -19824, -59225, 16969,
    72198, -58464, -98635, -75138, 34039, 9136, 38703, 225595, -56733, 26216,
    54644, 18155, 44687, -8017, -13084, -89616, -107807, 44393, 21327, -43823,
    123853, 125528, -188769, -40671, -10016, -98414, 120661, -31055, 4760, 126654,
    81222, 86230, -59725, 182575, -126271, -49848, 28655, 49045, 72057, -46531,
    46756, 27244, 44631, -42005, 30860, 153932, 133799, 132329, -30673, -55814,
    -30888, -123821, -104778, -67088, 112035, -230077, -64159, 38149, -24337, 152284,
    -182643, -11035, -51125, -107513, 109542, -25235, -80181, -72882
  >>

NormalStream1 ==
  <<
    60746, -1423, 123091, 101548, -33646, 121748, -84131, -21134, -59535, -89275,
    130567, 29985, -97463, 131562, 129561, 171730, -81792, 2205, -105450, 87112,
    -124327, 107007, -38313, 6525, 5920, -1822, -22001, 21426, 100805, 80499,
    49704, 24675, -87567, 110184, 18341, 15008, 1572, -37570, 17532, 35603,
    -133261, -265268, 32394, 58428, -178555, -28684, -123550, -78300, 66567, -58028,
    -133218, -16708, 2194, 99061, -215712, -197326, 67135, 105689, -135099, -42509,
    -83093, -107916, -234758, 71651, 14553, 71266, -32056, -154911, -14273, -203154,
    -69941, -233391, -76339, -35076, 184402, 112997, 209660, -183503, -165819, -85811,
    89585, 111188, 92614, -38657, 159164, -139379, -70929, 77756, 15642, -97853,
    153913, 134484, -179472, 32185, -103779, 144641, -79211, -173286, 99441, -80887,
    -197152, 117522, 30113, -34185, -127840, 95469, -90161, -43861, -99855, 150199,
    73143, 124047, -49270, -205669, 96826, -62357, 33537, -47386, 9455, -199901,
    -172678, -8417, -118993, 54833, 81096, -138870, 101827, 230290, 39576, -13723,
    110931, -45367, 18430, 110237, -27053, 43068, 12917, -28878, -86802, 93705,
    -43786, 9865, 45460, 119134, -88889, -4687, -34246, -109056, 16363, 95476,
    218753, -73732, 100039, -74107, -112533, 110167, -53778, -212899, 142184, 91457,
    -124522, 130879, 91576, -85262, 29186, -92996, -172485, -10729, 55474, 72508,
    -80674, -93911, -135041, -10926, 107483, -27973, 221629, -124779, 18078, 809,
    4875, -17978, -55757, 153400, -3750, -26386, 142308, 115559, 155175, 97119,
    -40250, 43902, -33119, -117144, 54416, -4925, 68550, 37515, 60544, 137110,
    -35119, 283095, 8952, 110820, -5912, 6910, -20593, 27449, 22812, 54628,
    82044, -63033, 90602, 6299, 7506, -163895, 197926, -101191, -104695, 93848,
    226995, 30736, -49100, 60441, 25883, 145848, 24700, 5296, -218418, -95849,
    -157958, 53967, -111984, -1456, 150541, 189009, -166712, -213173, -115675, -1372,
    -74000, 102196, 17400, 55044, 177439, -50178, 169638, -143099, 52324, -181601,
    -122443, -118184, -44010, 92373, 207551, 45823, 32094, 23870, 41100, 4050,
    -42869, -38557, 142704, 153084, 101172, -168385, -11148, -61504, 4622, 56369,
    -129774, 58102, -58536, -98638, -44071, 16122, 47470, 192269, 59221, 80276,
    -93444, 4006, -62399, 37772, -53444, -119180, 383, -44500
  >>

NormalStream2 ==
  <<
    217989, 42086, 46224, 16552, -19612, 169134, -12928, -8837, -190220, 10052,
    -34747, 36585, 214498, 152976, -14097, -22791, 856, -213913, 127219, 145790,
    74775, -70668, 41055, 95624, 102215, 1511, 63039, -40747, 30982, 22870,
    200567, 86488, 44615, 36088, -141417, 80406, -46720, -125946, -172016, 63777,
    -175866, -20517, -121309, 76763, -100140, -145989, 175456, 211022, -6030, 40355,
    -123637, 73690, 24009, 2966, 106449, 31363, -189983, 85696, -82648, -104594,
    106614, 48346, -27873, -17617, 50569, -83912, -58848, 6642, -91117, -23272,
    14660, -29614, -60346, 81919, 41954, 26686, 132133, -98579, 178460, -151445,
    -29805, -121703, -102171, -123181, -34587, 71910, 122557, 76377, -44997, 70099,
    8637, -45376, -2597, -38681, 173409, 60316, -103979, 29150, -45465, 91845,
    -22040, -144956, -143291, 49743, 125674, 58514, 14732, -10396, 138140, -111925,
    -5057, 66797, 118417, 123378, -124560, -50110, -156476, 139985, 100024, 57223,
    101266, -160247, -15080, 21277, -15360, 110766, -7913, -38640, 512, -224140,
    81922, 141222, 72185, -93617, -8598, 126433, 10554, -75770, -93648, -6028,
    79972, 122941, 43355, 37562, 35063, 137675, -42922, -9486, -32611, -33769,
    -8772, -14051, -27612, 109393, -90136, -165643, -33626, 66018, 144188, -96955,
    -222881, 146903, 167120, -94700, 46283, -21791, 121551, -37662, -39947, 79620,
    9595, 93786, -101999, -87683, -77146, -73706, -65202, -57233, 28596, -93992,
    105546, 55154, 25507, -119853, 31276, 140402, -11815, -193531, 40613, -13248,
    4454, -104451, -104101, -65727, 32072, -85514, 11704, 394, 115797, 250578,
    -121609, -85267, -97680, -54955, 75728, 27618, -29959, -20726, -86382, 122137,
    -6526, -156522, 99917, -63452, 38565, 83468, 66236, 17497, -58511, 51136,
    -8749, 47700, 160167, -25625, 69441, 31118, 47691, 89637, -61931, -38898,
    91013, 152244, 88905, -11929, -6158, -101234, -99530, 18212, -143165, 79447,
    58148, 207713, -41591, 82459, -75446, -41744, 58513, -17559, 15768, -152500,
    -22803, 176686, 49346, -85381, -171975, 157125, 72881, -57839, -163892, -33089,
    132699, -6982, -62987, 30633, 31643, 59353, 2801, 3678, 115613, 132364,
    -4229, -90596, 16829, -154426, -12492, -95747, -82638, -37647, 183985, 119473,
    138437, -168794, 17718, -19046, 59529, 42122, -205100, 113390
  >>

NormalStream3 ==
  <<
    -98630, -56326, 23080, -53918, 110229, 28088, 175331, 15369, 31418, 108340,
    -35184, 118932, -90508, -147492, -79757, 141626, 31084, 2023, -61642, 150876,
    35109, 161123, 46498, 133394, -39391, -18087, -152929, 20573, 56011, -35374,
    17669, -87684, 22459, 109365, -14152, 61047, 26763, 153335, -42205, -64399,
    171168, 8405, -34630, 24125, 40929, 47506, 135525, -78530, 23380, -33956,
    -55510, -54976, 44865, -41921, 68460, -94957, 37832, -45842, 101892, 73422,
    -80090, 120296, -53661, 6281, -75244, 147196, 80247, -89721, 69170, -45204,
    -23309, -225969, 94250, 257929, 58133, -54923, -50169, 21337, 162075, -80416,
    58828, -242732, 29214, -17971, -31666, 32437, 160521, -105971, -83979, -25066,
    -142606, -46079, -72253, 23247, -78954, -145219, 59802, -87735, -54960, 78234,
    137016, -18699, -2222, -44580, -8899, 20169, -127795, -105707, 119662, -76137,
    247134, 150927, 91935, -165155, 79516, 181728, 184386, 93879, 41322, -111413,
    63833, -53935, -111698, 71744, -37682, -44147, -143074, 138213, 50566, 134239,
    61762, -7822, 80143, 148052, -34755, -73499, -124538, -41375, -118847, -101740,
    19816, -5700, -87919, -135207, -8732, -33138, 124580, -11487, 102018, -7260,
    -161167, 80101, -71820, -181749, -55503, 42973, -55528, 42453, -127173, -21283,
    -119871, 128250, 8639, -115494, 120976, 192578, -108224, 136289, -163595, 6997,
    -1620, 116391, 13923, 67702, 30397, -103396, 37555, 46657, -39067, 95557,
    64157, -65145, 1074, 71422, -48056, 31185, -164829, -91212, 175499, -66679,
    -55703, 215549, 18474, -21611, 10970, -68160, 124961, 21645, 45700, 119708,
    63658, 54673, 7518, -111790, -158979, 45053, 276325, 133143, -120442, -49594,
    95044, -234341, 38578, 154098, 62651, 110146, 85560, -90541, -115712, 73907,
    -38095, -62571, 73689, 59534, -47029, 21324, 56718, -8530, -60143, -19853,
    -111659, -15056, 36781, -27492, -53241, -5220, 32138, 53880, 92368, 106181,
    -58422, 145546, -29390, 85915, 155394, -85228, -236098, -108343, -88909, 154623,
    128918, 114024, -18985, 92307, -47636, 95993, 58926, -2613, -23488, 33693,
    201090, 116092, -45288, -122222, 13282, -167635, 14851, -109749, -63007, 84700,
    7442, 62924, -132884, 55280, -66544, -10498, 141851, 68015, 12545, 42390,
    -51204, -164333, 69946, 64598, -75503, -12957, -57981, 280222
  >>

NormalStream123 ==
  <<
    -17834, 9300, 71878, -41918, -11982, 18001, -57386, 17141, -135285, -128583,
    24361, -52666, 94809, 87680, 260147, -7174, -22234, 53271, 32677, -45955,
    -134755, 18907, -58499, 22299, -32956, 19864, 194329, 29089, -3377, 151929,
    -77667, -64506, -69160, -15328, -116345, -124461, -77228, 64687, -72084, -49204,
    48921, -49334, 6935, -176435, -21748, 168722, 112461, -20806, -188333, -200212,
    41603, 28801, 2927, 46, -210886, -37672, 1357, -50723, -64915, -120510,
    -104217, -58947, 27413, -10213, 63934, 135264, -3941, -94884, -175628, 37043,
    38268, -71594, -21196, 70579, 242451, -128255, 477, -126484, -288011, -88201,
    80947, -21447, 342080, -85156, -71611, 16325, 65481, 95945, 76725, 86208,
    116354, 66157, -50159, 34405, -50856, -25044, 36499, 17996, -251910, -7796,
    -125548, 10702, -77010, -155219, 79602, -48588, -66487, 59149, -15575, -60725,
    164570, -28041, -60657, 49282, 17013, 164939, -118846, 138617, -46069, 229001,
    23586, -122201, 54231, -115367, 29427, -110926, -79899, 32326, -125093, -79928,
    -41557, 233477, 77223, -70128, 131447, 140921, 162687, -83152, -131206, 125657,
    33987, -168030, 52578, 24902, -78770, 66548, 166524, 209991, 75734, 24619,
    -102041, -107694, 43221, 10464, 241281, -145453, 99487, 48344, -50159, -74341,
    63323, -76112, -42259, 51913, -77610, 77497, -28398, -85099, 138067, -745,
    -177777, 83494, -177882, -123561, 96139, 9403, 8704, -165599, 170758, -34883,
    30264, 60137, 84865, -40048, -68969, -115121, 61273, 169036, 190521, -22867,
    126354, -5624, 98837, 35445, 15105, 69375, -33322, -51832, -2507, -16393,
    -197878, -171947, 165220, 154397, -4300, -123430, 6508, -147553, -53589, -167452,
    189026, 42308, 63292, 124743, -124702, 23, -90878, 83845, -82375, 113364,
    -85944, 206683, 148038, 127495, 25339, 39370, 181326, 29364, -116190, -75611,
    -74204, -35727, -92564, -176020, -4124, 37445, -82115, -50094, -3322, -91796,
    52246, -37604, -19628, -110487, 62842, -190080, -116994, 15, -71071, 41039,
    28168, 43923, 122737, -65977, -5319, -144224, -100446, -77695, -70081, -126225,
    -119021, -6473, -46106, 6799, 89485, 47854, 57614, 37818, -53878, -116460,
    -140278, 26309, -189467, 87644, -79635, -250525, -84667, 19565, -87849, 33915,
    -104408, -28561, 125365, -156768, 45255, -179986, -240130, 53607, -57097, 202507,
    -79259, 199915, 92975, 266775, -110339, -93802, 100742, 37596, 30750, 256933,
    -90700, -144224, -12153, -15899, 123226, -92384, -40203, -7926, 64830, -171962,
    -71985, 97966, 14016, -39258, -23511, -169317, -91916, 31551, -19760, -97085,
    -60251, -117104, -147721, -33021, -106758, 39470, -77308, 83989, -124580, -77519,
    -32212, -34961, -34702, -198881, -110400, 110327, 99831, -3335, -83529, -13765,
    -10760, 54968, -78389, -158731, -9059, -49601, 27361, 120861, 175237, -247375,
    -79265, -21387, -120166, -92146, 31486, -68337, 124252, -70132, -57430, -26213,
    -76195, 174049, 61189, 34293, 17199, -538, -174830, 123686, -36079, -73850,
    -64574, 73203, -50177, 22855, 54000, 38299, 94504, -83534, 117832, 9353,
    206564, -19533, -88481, 14806, 123093, 40927, -34791, -51764, -94253, -33912,
    99010, 38330, -24580, 42324, -111681, 31998, -79503, -106885, -90826, 49596,
    -193805, 56777, 151419, 53754, -88545, 112696, 13330, 25185, 141523, 50153,
    232048, -67656, -77591, -122228, 96134, -120853, 45004, 23556, 179350, 149339,
    -45193, -134399, -35089, 85635, -59845, -70505, 58803, 43338, 36451, 76899,
    54474, -195497, -183564, -40657, 45446, 12133, 6666, 126578, -262448, -107154,
    -52586, -150823, 6655, -77533, -111722, 217660, -12819, -49909, 85023, 95847,
    68439, 248320, 15817, -8309, 62992, 20330, 12178, -11567, 118712, -94371,
    -2329, -54126, 98579, 7440, -133, -158662, -9591, -113313, 288896, 106334,
    47824, -276, -66634, 244991, 67810, 143009, -81384, 29316, -76390, -66450,
    133475, 113045, 50510, -61199, 52165, -98980, -122883, -88645, 175660, 268553,
    -237860, -143020, -160824, 95408, 68054, -47944, 12892, -47633, 7364, 3567,
    3623, -60649, -38612, 94710, -115801, -77829, 21329, -57802, -154820, 106783,
    -36521, 13477, 63316, -201531, 84441, 3176, 84579, -16148, 97766, 96498,
    -59732, 142246, -20130, -7114, 41674, 152935, 7819, 141206, -43941, -109302,
    -186926, -25551, -43831, -39928, 92415, -154945, -6049, -15933, 17060, 20379,
    49613, 92977, -99088, 22587, -119049, -110421, -37017, -11770, -10105, -120800,
    54693, 29457, 495, -39238, 97935, 90390, -148828, 9490, -3844, -110792,
    -137770, 65533, -11802, 72437, 105143, -88684, 29788, -39813, -92290, 21005,
    215153, -4723, -11650, -20272, -75243, 120374, 189118, -41601, -225988, -170557,
    53371, 74025, -17416, -79845, 99068, -51604, -25362, 3168, -13826, 38755,
    -88858, -73390, 29080, 140810, 26385, 60915, 4306, 49524, 36583, 26329,
    -82795, -8562, 94245, 36269, -193471, -44538, 38335, -6699, 66510, 99279,
    255728, -59005, 134468, -3195, -9764, 17464, 58231, -60176, -26065, -15834,
    -15494, 37266, 104189, 140407, 9058, -99622, -74772, -44280, -160839, -25356,
    26869, 242502, 173571, -152577, -177744, -58901, -262554, 248288, -103115, 116288,
    -188392, -78734, -46191, -24869, -1974, -11708, -39637, 28895, 31586, 556,
    -54355, -208768, -127206, -4970, 56076, -5335, -123004, -28192, -213424, -5705,
    130093, 73605, -14268, -4273, 101237, -10686, 124188, 25867, 121180, -30727,
    16444, -41101, 69134, 193836, 109124, -52037, -12295, -120571, 69326, -45232,
    -123052, 73639, -56242, -86801, -50620, 24326, -96323, -17784, 38992, 57106,
    72694, -47797, -29691, 88922, -195497, 1975, -107315, -167437, -86374, -70781,
    -735, -144005, 199646, -249442, -152435, -116069, 96943, -49350, 113447, 55978,
    -223359, 8051, -38995, 59458, 35937, -1236, -98941, -81901, -129291, 173881,
    58707, 57137, -18610, 39582, 25598, -144816, 31167, 11931, 48054, -142944,
    -165806, 243631, -43839, 115778, -66262, 30687, 64769, 89737, 79567, 7533,
    -85529, 17300, -1854, 50713, 32152, 78994, 58864, 80388, 69721, 67025,
    44818, 44691, 102782, 7558, -80525, 45285, 7100, -82000, 18907, 110193,
    26983, -93580, 60007, -73376, -17032, 8296, -4898, 15124, 68435, 241140,
    18741, -51945, 2761, -52981, -29803, -31109, 99539, 60642, 131779, -12324,
    -35089, 14588, -11391, -37593, 40769, 1121, 29571, 22848, 33493, -91880,
    -81356, -75408, -59794, -131406, 150959, -40732, -113829, -34511, 45450, 154992,
    -106859, 72067, 16329, 6220, -108072, -91967, 48106, 34428, 110797, 275406,
    64493, -169848, 3893, -192603, 87413, -32272, 161784, -158551, -181572, -43285,
    89403, 112339, -102604, -100451, -22495, -50778, 64291, -34541, 71454, -32684,
    89074, -24204, -36387, -83556, -132735, 69722, -55960, -245230, 421, -39612,
    18777, 99143, 225837, 98605, -116260, 90248, -15340, -78462, 81090, 95913,
    -52647, -21779, -19849, -53553, -145910, -147294, 37170, 152767, 82060, -104602,
    14730, 163000, -39045, 20213, 18430, 116590, 37297, 49391, -88036, -24902,
    -156828, 34130, -122256, 117388, -39472, -134645, -61262, 11762, 55561, -18353,
    -74599, 153535, 15954, -21640, 196675, 17438, -58000, -195049, 46080, -138323,
    190604, -37458, -14667, 94461, 99555, 35318, 35350, 20800, -175391, -27574,
    -1889, -383, -67916, -35608, -37847, -68383, -49169, 59019, -22063, 11183,
    85089, 74134, -56182, 131641, 244492, -33015, -132600, 103734, -45033, 135688,
    144884, -18250, 156707, -156079, -100677, -97507, -16332, -10458, 120111, 60524,
    11909, -6710, 37071, -236622, -107709, 39982, 4999, 220970, 43278, -238571,
    64675, -198752, -128555, 151737, -81570, -7760, 15257, 42136, 28431, 36831,
    26107, -292, -62714, -121458, -35807, -126185, -48643, 43190, 25801, -119719,
    -19209, 190194, 43569, -57378, -35378, -79872, -44496, -14402, 37998, 32372,
    -145681, 94194, -46628, -15792, -103866, 60096, -8070, -197615, -12547, -70656,
    66476, 63238, 55796, -111560, 32545, 15157, 48678, -24508, -69886, -29226,
    105510, 72617, 44211, -70735, 93344, 67829, -26966, -170400, -115674, 5178,
    47605, -10441, 66765, 7255, -71308, -53252, 49085, 67751, 9428, -75725,
    -675, 74151, -97195, 56915, -14424, -84325, -38300, -238224, -140954, -128564,
    -16346, 50564, 38254, 178326, -155399, -27147, -154381, -68320, 12208, -863,
    84725, -25091, -64637, 3011, 147721, -48982, 131628, -33740, -212892, 93097,
    112418, 8735, 178869, -235583, -6547, -2108, -47550, 38936, 136072, -81189,
    186009, 120936, -13577, -34452, 28083, 7565, -86691, -43401, 134358, 138837,
    57811, -133275, 84354, -183750, -31738, 166144, -49615, 28878, 123380, -44453,
    -93387, -111549, 47159, -14301, 46283, 4618, 26579, 132645, 23956, 86371,
    39037, 101899, 96633, 51186, -72304, -165140, 18570, -100577, 26014, 156450,
    -121663, -29496, -20867, -129048, 81093, -98404, 17293, -120697, -81073, 89956,
    -53938, 26784, -143148, 97949, 154132, 1579, -131344, 212809, -237007, -23864,
    -79025, 28830, -124630, 242893, 63955, 30147, 43300, 1194, -118796, 66435,
    -178260, -22814, -48447, -14142, 84341, 167915, 63283, -52524, -48454, -88207,
    -118710, -142234, 104881, -53839, 68596, -50909, 22556, 123365, -52263, 73916,
    -91558, 15152, 38206, -172947, -214814, -41989, -98967, -220674, 123764, 141161,
    -13316, 212317, 196244, -95664, -42381, -40144, 190397, -133024, -7060, -169347,
    -68290, 11320, -219079, 35559, 44716, 104898, -55074, -13729, -24539, -6550,
    21520, 127760, 296267, 80303, -38692, 29551, -35781, 183123, 198130, 7984,
    107938, -283274, 73142, 54767, 173963, -133471, -36394, -12458, 29134, 198304,
    -162520, -19988, -12635, -169503, 87898, -88051, 103787, -58808, 77669, 175944,
    57281, 91490, -44933, -81782, -97532, 139001, -185022, -108895, 74598, -336246,
    -121460, 42255, -63464, -79087, 24611, -55624, 56586, -60469, 14943, 107968,
    -163661, 32754, -160251, -109856, -107082, -59192, 82217, -42447, 148883, -1987,
    -190236, 44731, 71408, -29506, -7136, -77121, -122195, -260405, 53587, 60163,
    -219329, -53321, -237137, 130274, -110157, -90052, 126734, 83634, 32330, 20493,
    -99193, 60906, -244337, 84844, -107496, 116466, -31426, 124319, 26269, -85092,
    128140, 116836, -62901, 139756, -33318, -109310, -22123, 93829, 137433, 121745,
    48477, -26820, 48982, 175562, 111912, 48830, -22638, 100560, 727, -2528,
    50506, -122592, 65475, -27933, -156083, 22770, -80628, -85555, -138297, -14781,
    119749, -127060, -29914, 62063, 87252, -77215, -55244, 154743, 77555, 116614,
    -19477, -127293, 13534, 27170, 41163, 15149, 11044, 55704, 121112, 77766,
    -33653, -16523, 54908, 83764, 97198, 234524, -103098, 143265, 208008, -32270,
    -150060, -22096, 28277, -134799, -137445, -31248, -95650, -37131, -9186, -18160,
    -38935, -64817, -94430, 59913, 45500, 3316, 102384, 161942, -147265, 75340,
    130673, 35756, -110443, 153879, -60534, 177714, 26050, -114868, -131298, 85573,
    2298, -51248, -21665, -46913, -94848, 57772, 62031, 69128, -120841, 94784,
    53764, 203707, -104276, -161798, -18636, -45072, -96542, 50695, 24913, 91575,
    -143695, 33023, 85108, 65004, 73580, 44203, 101678, -104276, -48324, -97319,
    66400, -44050, -50071, 55568, -40944, 172825, -103592, 168811, 58734, 3789,
    -72850, -963, 102029, -7562, 130637, 75379, 160853, -2239, -110913, 53240,
    106507, -53008, 62026, 306226, -10401, -60933, -8216, 69852, -196064, -94040,
    33164, -29187, -199789, 39610, -31562, 119035, -32182, -26773, -19274, 35018,
    -21638, 238796, -120658, -59917, 90732, -103661, 45216, 33656, -50580, 23463,
    -126350, -35597, -3352, 226574, 56773, 2107, -153226, -111612, -99586, 38016,
    152189, 204009, -61677, 151887, -20019, 74553, 126875, -127313, 30802, 62644,
    78851, 179864, 129558, 97855, 140056, 167267, -8244, -70074, 178006, 114841,
    94017, -1968, -202656, -127495, -37670, 31717, 46917, 68614, -22687, -691,
    19172, -36112, 5202, 24503, -40942, 164992, -65571, 27291, 2698, -128800,
    79187, 7184, 87405, 133016, 24238, -50290, 57178, -41173, -210530, -22825,
    21325, 53741, -108150, -51932, 11894, 111088, 275148, -127542, 24494, -90322,
    144881, 51862, 23917, 86041, 95444, 113958, 236436, -99268, 20872, 166683,
    82452, 23083, 53489, -57074, -33522, 15136, 48751, -86915, -124316, -28536,
    -132505, 172685, 147125, 7080, 142052, 55354, -105518, -64194, 81054, 62312,
    146413, 27581, 38712, -216703, -25611, 142006, 56284, -70218, 123616, 76697,
    257853, 121409, -95657, 117331, -133499, 238959, 29052, 13067, 98914, -66137,
    -138370, -140673, 64965, 42039, -77049, 13552, 21762, 133922, -256877, 86327,
    76675, -76908, -24708, 13320, 281416, -96811, 39160, 32579, 28511, -185256,
    -114754, -4327, -58853, -323262, -30817, -228799, 138731, 51150, -220048, 56484,
    71449, 119976, 75018, -105923, -105221, -130774, 121462, 50164, 34581, 151328,
    49687, 177664, -28240, -114043, 85166, -47839, -36961, 107433, 49814, -96306,
    1203, -66900, -89964, -38551, -214362, -183689, -53109, 93909, -76003, 165702,
    16037, -135293, -67962, -106785, 125654, 30735, 2857, -53976, 7895, -204093,
    56446, 59461, 49144, -69067, 192803, 128034, 148153, 109107, 56952, 65739,
    -237271, -91402, -15824, -46388, 53225, 62746, -74635, 10144, -61443, -117079,
    46742, 84813, -124388, 145846, -45167, 67390, -172432, 114809, 134153, 141894,
    115621, 288380, -7481, -143381, -89927, -39008, 230659, -84877, 88749, -190231,
    -13268, 42729, -67631, 14129, -14924, 144843, -22862, -51030, 27936, 84840,
    -87572, 122558, 19459, -150846, -57568, -77434, 122567, -65806, -201084, -51111,
    125257, -132823, -39600, 123398, 228212, -6673, -17223, -118795, 17704, -54080,
    -14975, 122195, -154063, 194202, 323744, 65489, 71568, 28841, 36150, -79392,
    -53318, -128398, -51017, 37709, -144514, -146416, 64333, -155285, -101609, -147193,
    -53046, 198572, -176940, 22610, 17958, 123717, 26162, -68050, -84482, 133894,
    69080, 177950, 117962, 147885, 49090, -70296, 59305, -94523, -135569, -77055,
    -48131, -132645, -26861, -54676, -47459, -133962, 190051, -55580, 113780, 6618,
    -68614, -29945, -48796, 85200, -74575, 29588, -162252, -46421, -65346, -3520,
    -164959, -127193, 23999, 49681, 10652, 249118, 84177, 103968, -129183, -67474,
    111584, -25684, 99696, 85502, 161597, 79252, -79654, 15942, 59102, -11797,
    -141936, -29890, -176944, 184065, 227104, 85403, 61359, -52327, -144039, -36032,
    23070, 84041, -98067, 25043, 13262, 58358, -177009, -219528, 12634, 29573,
    -80682, -53006, 2961, -154852, 77818, -84275, -216703, 334074, 135331, -81866,
    -28268, -137388, -45423, -184774, -16460, -51264, -190167, -109819, 83134, -132059,
    -15434, 98967, 83915, 169423, 46394, -21123, 59880, -92408, 189652, -164163,
    -152912, 64008, -187341, 55959, -5385, -21954, 59412, -86688, -175777, -3906,
    -3776, -82670, 217316, 28681, 146112, -124965, 30478, 27162, 7406, -2851,
    20322, -88775, 99923, -41899, -259577, -31396, 206554, -36519, 133964, 67164,
    -27123, 85380, 201632, 9538, -15685, 120366, 83030, 6823, -13639, 11432,
    9016, -92874, -46351, 11624, 55246, -27332, 177028, -65021, 144500, 133565,
    -66335, -141538, -26139, 230604, 182549, 34827, 9994, 254570, 150485, 43562,
    89806, 28422, 123176, 111967, 214167, 35846, -38716, 94055, -142816, -115055,
    8133, -40937, -9218, 530, 17833, 109000, 38295, -95626, -250714, 101416,
    59565, -125073, -29809, -32764, 16740, 85037, -23296, 18570, 201771, -26301,
    44991, -20770, 46163, 223236, -39285, -23512, 48733, -101033, 86314, 181234,
    -101780, 35450, 149389, 147742, 26199, 4527, 44603, 150707, -48653, 46442,
    637, -171482, -31879, -93074, -113738, -7726, -19392, 64543, 151279, 110288,
    -152143, 68546, -84315, -27936, 287132, -14752, 104739, 38577, 33106, -126406,
    -18491, 333753, 84862, 226564, 78697, -48574, 189509, -195899, -85923, -124971,
    -83853, -45508, -19039, -77688, 27008, 91295, -46220, 134236, 132549, 35442,
    -52056, -178665, -13239, -26607, 61539, 40204, -75959, -111266, 129946, -59499,
    -125208, -22070, -80765, 62430, 87, 120198, 16518, -25314, 218601, 103343,
    23853, 76430, -79715, -62848, 43012, -180020, -98388, 138264, 73882, -115386,
    213001, 13534, -55968, -135922, 26523, -38537, -6914, -9668, -29090, -91039,
    20419, 61343, -9431, -13314, 166429, -149959, -28078, -10161, -162207, 26778,
    -41088, -4843, -72689, 111064, 34595, 43653, 75701, 260605, 53268, -34942,
    -32814, -149413, 99977, 126432, -48520, -59999, 52135, -60882, 14337, 39668,
    -102772, 109958, 69616, 46146, 21389, -109952, 53277, -25053, -209490, -719,
    -29726, -182159, 19518, -9971, 57121, -31222, 63591, 102975, -114697, 111863,
    -105700, 55530, 73770, 60945, 91890, -28946, 183913, 213958, -174445, 78516,
    -92583, 34238, 42179, 50353, 21759, 41529, 35977, -26466, -83653, -77284,
    87235, -13281, 76644, 52051, -117213, 126952, -223776, -54460, 46166, -14623,
    -30622, 153045, -160051, -45256, -50954, -121801, -50391, -25168, 9850, 136300,
    61859, 32328, -159212, 25031, 173617, -186993, -144344, 7212, 907, -18883,
    260274, 63320, 47029, 28921, 13384, -96612, 125733, -20821, -100034, -65301,
    -105800, 127648, -51759, 122226, -6601, -59664, -48347, 12705, -17110, 49612,
    -41381, 31532, 157263, 120550, -34691, 47900, -3504, 107832, 96113, -11861,
    -167862, -7131, -93231, -1607, -40463, -73739, 12461, 70441, -5062, -100540,
    22033, -71905, -64653, -92633, -364100, -164479, 25917, -176158, 51940, 85269,
    124932, 20439, 170477, 120653, 178393, 42107, 40974, -131912, -152586, -45807,
    -16020, 12723, 26634, -5840, 9843, 15038, -10077, -125922, 128753, 50506,
    50789, 59970, -55586, 88413, 45824, 161089, 12065, -10723, 176599, 13054,
    41667, 130937, 181178, -144475, -26498, -40395, -108886, -4836, 73567, 149373,
    -46394, 30431, -214399, -150464, 160869, 223694, -168612, -6147, -87136, -148329,
    9510, -50793, 85020, 131748, -47217, -45882, -111376, -127659, -54302, -15995,
    -9465, -32911, 24575, 131244, 108026, -79126, -127224, -2669, -88112, -122702,
    -14382, -64323, -56025, -90732, 8403, -37545, 81084, -112091, 27888, 69253,
    26291, 97340, -89553, -3348, 20358, 166881, -93772, -109644, 123234, 59924,
    -135467, -117825, 27716, -165798, 122755, 8843, 87169, -42484, 228731, -93799,
    49160, 32368, -207102, -91100, -91871, -52245, 97189, 152384, 27368, -81530,
    30446, 150632, -99599, 66958, 70637, 143826, -40374, 98584, -53760, 79403,
    -28029, -9119, 88540, 54358, 194458, 146397, 18649, 5160, -113034, -1881,
    107305, 98630, -119308, -52318, -66896, 12309, 63610, 100923, -60662, -104558,
    -99829, -52928, -65353, 59304, 115092, -74433, -50025, -28893, -40198, 129974,
    19206, 11315, -48437, 48898, -30402, 40930, 21918, -44605, 63756, -168138,
    76696, 60998, 59033, -114246, -28116, 160195, 109261, 14313, -19656, 1964,
    -46453, 25364, 24931, 48055, 39969, 6169, -67659, 73564, -122718, 26873,
    -99519, 52793, 190202, 121257, 200754, -48942, -180725, 97226, -56490, -139635,
    -197357, -33614, -151748, 90549, 3786, 147706, 128249, 96027, 48747, -498,
    70895, -126685, -27384, 134637, 138555, 50154, 12478, -18324, 228377, -81198,
    162566, -195965, -61701, -70367, -96411, 55890, 70778, -770, 117252, 71803,
    24286, 110907, 24161, -11636, -31189, 104485, -51522, 47579, 18635, -43338,
    -230177, -119235, 2629, -19570, 9816, -7030, 9171, 37293, -107590, -132967,
    -38213, -45840, -5867, -5146, -110671, -24651, 36826, 173441, 16092, 11605,
    16511, 192313, 7815, -16034, 63886, -38674, -88530, -15652, 24206, -7695,
    -22418, 38001, 36996, 11459, 68622, -32199, -262286, 99404, -17769, 120054,
    214995, 153114, 78639, 147629, -114968, 88210, 127887, -13727, 150337, -47187,
    -118424, 3746, -1907, 164387, 91108, 200755, 14383, 40745, -18463, 158931,
    -250293, 4827, -24205, -10655, 82130, -128239, -42406, 40892, 161047, 128103,
    -14487, -11686, -204144, 185059, 196068, 75950, 74417, 61480, -93587, -64257,
    34683, 149543, 4989, -28575, 136450, 53899, -174961, -114353, 82658, 7845,
    -198849, 22632, 104820, 194218, 148046, 71008, -27964, 26652, -56989, -124008,
    -34890, -5959, -23082, 40447, -48811, 73271, -27070, -120159, 36857, 184989,
    -161840, -72931, -66326, 703, -53810, 87175, -54501, -107689, -68106, -116436,
    -90160, -155963, -87491, 89882, -139156, -83223, 143198, 77831, -18736, 26859,
    -198440, 22274, 128131, -33196, -5807, 143514, -82318, -45799, -65137, -150358,
    -28910, 132809, 112696, 31941, -129256, -74378, 15503, 203955, 15540, 50498,
    245730, 286277, 48126, 137466, -500, -19732, 8621, -55129, -121014, -77964,
    -91028, -37576, 29564, 60030, -80036, -21902, -100467, 63607, 118687, 108343,
    -127958, -2456, -51312, 155347, 96073, 16102, -76985, 46945, -43021, 97904,
    19542, -92362, 182580, -46593, 107884, -79673, 46289, -4166, 73412, 81891,
    -85142, -87460, 28924, -159735, 180861, -45646, -159329, 79651, 276108, 1914,
    -16525, 77746, 3288, -7012, 15001, -31087, 118293, -8865, 17254, -60332,
    128129, 1482, -30066, -39462, 18830, 82664, -232484, -139518, -51739, 26208,
    177725, -237164, 1418, -51999, 71450, -108380, -31775, -145493, -61070, -9404,
    32997, 62770, -17636, -79093, -60000, -46459, -123534, 88982, -47433, -5198,
    -140260, -111232, 126226, 49747, 14274, 33020, 150588, 224093, 266840, -139525,
    50351, -167743, 51697, -32271, -58844, -62956, -93967, -138046, 6594, 109549,
    -79153, -36653, 153142, 98143, 28018, -122693, 11515, -19603, 44948, 187602,
    -192867, 2906, 47161, 40570, 139646, 98762, -94168, 1031, -96893, -70712,
    24852, 120067, -61439, -136266, -88197, 78410, -16375, -24222, 47479, -122416,
    143209, 146289, 170105, 3198, 45896, -68265, -113476, 5469, -187739, -17866,
    -50205, -6313, -55965, -93233, -102012, 21774, -77018, 97120, 43351, -72044,
    64122, 17562, -121127, 97845, -7588, -141373, -186543, 233864, -33727, 46200,
    84554, -92269, -72231, -49154, 51896, 98097, -9040, 118654, 63570, 19500,
    -89239, 32329, 150948, -18847, 64125, -142006, -22682, -77360, -10978, 13255,
    -101117, 101951, 75330, 41145, -738, 58939, -107361, -126711, -99798, -5059,
    -23995, -9534, -2506, -5455, -112292, 145643, 20171, -73059, 112762, -15593,
    -37760, -101438, -36675, -33426, 104461, -143212, -20512, 193934, 23831, -14301,
    140991, 75074, 47002, 33464, 2572, 94752, 237489, 20488, -69834, 2969,
    -8814, 60598, -25837, -221394, 109333, -28099, -23462, 5997, -2401, -234208,
    -97851, 89131, -8026, -84431, -64304, -89366, -30770, -15134, -138127, 1163,
    65431, 8153, -14414, 56932, 56956, -2744, -207722, 61724, 238463, -40246,
    113767, 15307, 112613, 51659, -59810, -29208, 121439, -43778, -63115, -20291,
    88779, 22990, 41877, 99270, -25912, -49168, -143609, 24968, -57463, 97996,
    -32034, -187827, 97376, 49056, 131565, 207616, -102513, 235909, 75493, 36397,
    21600, 81877, 19059, 134887, 132404, -140706, 42511, 127386, 41732, -56975,
    -244263, -30200, -159767, 33182, 61465, 61800, -42910, 130438, -90459, 16063,
    77166, 180205, -162196, 138786, -47460, 59850, 64790, 116613, 37372, 114842,
    -89735, -17449, 128432, 134029, 53643, 53427, 23827, -124772, -255610, 59215,
    85171, 206390, 38039, -2397, -96552, 108297, -36782, 166013, -39406, 296638
  >>

\* the stream of standard deviates of random.Random(seed)
NormalDeviates(seed) ==
  CASE seed = 0 -> NormalStream0
    [] seed = 1 -> NormalStream1
    [] seed = 2 -> NormalStream2
    [] seed = 3 -> NormalStream3
    [] seed = 123 -> NormalStream123

\* no generator yet: simulate() was not called
NoRng == [seed |-> 0, pos |-> 0]

\* the generator left by whoever drew last, instead of a fresh seeded one
RandomShared(seed) == rng

\* random.Random(seed): an int seed is taken by its absolute value; pos is
\* the number of deviates drawn since seeding
Random(seed) == [seed |-> Abs(seed), pos |-> 0]

\* a draw that leaves the generator where it was
NormalvariateStateless(g, mu, sigma) ==
  [value |-> mu + FMul(NormalDeviates(g.seed)[g.pos + 1], sigma), rng |-> g]

\* rng.normalvariate(mu, sigma): the value drawn and the generator after it
normalvariate(g, mu, sigma) ==
  [value |-> mu + FMul(NormalDeviates(g.seed)[g.pos + 1], sigma),
   rng |-> [seed |-> g.seed, pos |-> g.pos + 1]]

\* -------------------------------------------------------- simulator
simulate_occupancy(ts, open_regime, academic_intensity, g) ==
  IF open_regime = 0 THEN [value |-> 0, rng |-> g]
  ELSE
    LET weekday == Weekday(ts)
        daily_profile == FMul(Dec(0, 600), ExpMiddayTable[HalfHour(ts)])
                         + FMul(Dec(0, 400), ExpEveningTable[HalfHour(ts)])
        weekday_multiplier == IF weekday <= 4 THEN Dec(1, 0) ELSE Dec(0, 650)
        base_capacity == FMul(Dec(180, 0), academic_intensity)
        draw == normalvariate(g, 0, Dec(8, 0))
        occ == FMul(FMul(base_capacity, daily_profile), weekday_multiplier) + draw.value
    IN  [value |-> clamp(occ, 0, Dec(220, 0)), rng |-> draw.rng]

\* SimConfig() with its defaults
DefaultConfig ==
  [seed |-> 123,
   freq_minutes |-> 60,
   n_days |-> 60,
   building_factor_x4 |-> Dec(1, 100),
   base_kwh_when_closed |-> Dec(8, 0),
   base_kwh_when_open |-> Dec(18, 0),
   occ_to_activation |-> Dec(0, 20),
   temp_to_activation |-> Dec(0, 60),
   regime_to_activation |-> Dec(0, 350),
   activation_to_kwh |-> Dec(35, 0),
   direct_temp_to_kwh |-> Dec(0, 500),
   inertia_phi |-> Dec(0, 750),
   noise_sigma |-> Dec(2, 500),
   academic_intensity |-> Dec(1, 0)]

\* the start simulate() uses when none is given: datetime(2025, 1, 1, 0, 0, 0)
DefaultStart == Datetime(1, 0, 0, 0)

NoStart == [doy |-> 0, minute |-> 0, second |-> 0]

\* steps_per_day = int((24 * 60) / cfg.freq_minutes); n_steps = cfg.n_days * steps_per_day
StepsPerDay(c) == (24 * 60) \div c.freq_minutes
NSteps(c) == c.n_days * StepsPerDay(c)

\* the output left unfloored
NoFloor(y) == y

\* y_kwh = max(0.0, y_kwh)
FloorAtZero(y) == Max(0, y)

\* the inertia weights swapped
InertiaMixSwapped(phi, yp, y_det, noise) ==
  FMul(phi, y_det) + FMul(Dec(1, 0) - phi, yp) + noise

\* cfg.inertia_phi * y_prev + (1.0 - cfg.inertia_phi) * y_det + noise
InertiaMix(phi, yp, y_det, noise) ==
  FMul(phi, yp) + FMul(Dec(1, 0) - phi, y_det) + noise

\* one iteration of the loop of simulate(): every intermediate value of the
\* step for the timestamp ts, from the previous output yp and the generator g
StepValues(c, ts, yp, g) ==
  LET x3_open == simulate_open_regime(ts)
      x2_temp_out == simulate_outdoor_temp(ts)
      x2_pressure == temp_pressure(x2_temp_out)
      occ == simulate_occupancy(ts, x3_open, c.academic_intensity, g)
      x1_occ == occ.value
      x5_availability == FMul(Dec(0, 700) + FMul(Dec(0, 300), x3_open * Scale),
                              c.building_factor_x4)
      m1_raw == FMul(FMul(c.regime_to_activation, x3_open * Scale)
                     + FMul(c.occ_to_activation, x1_occ)
                     + FMul(c.temp_to_activation, x2_pressure),
                     x5_availability)
      m1_activation == clamp(m1_raw, 0, Dec(2, 0))
      baseline == FMul(IF x3_open = 1 THEN c.base_kwh_when_open ELSE c.base_kwh_when_closed,
                       c.building_factor_x4)
      y_det == baseline + FMul(c.activation_to_kwh, m1_activation)
               + FMul(c.direct_temp_to_kwh, x2_pressure)
      draw == normalvariate(occ.rng, 0, c.noise_sigma)
      noise == draw.value
      y_raw == InertiaMix(c.inertia_phi, yp, y_det, noise)
      y_kwh == FloorAtZero(y_raw)
  IN  [ts |-> ts, x3_open |-> x3_open, x2_temp_out |-> x2_temp_out,
       x2_pressure |-> x2_pressure, x1_occ |-> x1_occ,
       x5_availability |-> x5_availability, m1_activation |-> m1_activation,
       y_det |-> y_det, noise |-> noise, y_prev |-> yp, y_kwh |-> y_kwh,
       rng_in |-> g, rng_occ |-> occ.rng, rng_out |-> draw.rng]

\* the dict appended to rows
RowOf(c, v) ==
  [timestamp |-> IsoFormat(v.ts),
   X1_occupancy |-> Round3(v.x1_occ),
   X2_temp_out |-> Round3(v.x2_temp_out),
   X2_temp_pressure |-> Round3(v.x2_pressure),
   X3_open |-> v.x3_open * Scale,
   X4_building_factor |-> Round3(c.building_factor_x4),
   X5_availability |-> Round3(v.x5_availability),
   M1_activation |-> Round4(v.m1_activation),
   Y_kwh |-> Round4(v.y_kwh)]

\* the keys of a row, in insertion order
RowKeys ==
  <<"timestamp", "X1_occupancy", "X2_temp_out", "X2_temp_pressure", "X3_open",
    "X4_building_factor", "X5_availability", "M1_activation", "Y_kwh">>

\* ------------------------------------------------------------ inputs
FreqChoices == {30, 60, 420, 720}
PhiChoices == {0, Dec(0, 750), Dec(1, 0)}
SigmaChoices == {Dec(2, 500), Dec(20, 0)}

\* coefficient profiles: the defaults; a crowded building whose regime and
\* temperature coefficients are negative; a nearly empty building
CrowdedConfig ==
  [DefaultConfig EXCEPT !.academic_intensity = Dec(2, 0),
                        !.regime_to_activation = -Dec(0, 500),
                        !.temp_to_activation = -Dec(0, 60),
                        !.building_factor_x4 = Dec(0, 900)]

QuietConfig == [DefaultConfig EXCEPT !.academic_intensity = Dec(0, 200)]

\* the configurations simulate() is run on: the default coefficients over
\* the small grids above, the two other profiles over the grids of seed,
\* frequency and days, and SimConfig() itself (60 days of hours, seed 123)
Configs ==
  {[DefaultConfig EXCEPT !.seed = s, !.freq_minutes = f, !.n_days = d,
                         !.inertia_phi = p, !.noise_sigma = g] :
     s \in 0..MaxSeed, f \in FreqChoices, d \in 0..MaxDays,
     p \in PhiChoices, g \in SigmaChoices}
  \cup
  {[base EXCEPT !.seed = s, !.freq_minutes = f, !.n_days = d] :
     base \in {CrowdedConfig, QuietConfig}, s \in 0..MaxSeed, f \in FreqChoices,
     d \in 0..MaxDays}
  \cup {DefaultConfig}

\* start = None, or Friday 2025-04-04 12:30:15
Starts == {NoStart, Datetime(94, 12, 30, 15)}

\* ------------------------------------------------------ tabular writer
\* a path is the sequence of its components; os.path.dirname drops the
\* last one
OutPaths == {<<"data", "simulated.csv">>, <<"simulated.csv">>}

dirname(path) == SubSeq(path, 1, Len(path) - 1)

\* The file system is [dirs, files]: the directories under the working
\* directory, and the files by path; a file is its header line and its
\* data lines, each the sequence of its cells.
File(header, lines) == [header |-> header, lines |-> lines]

\* the working directory (the empty dirname) always exists
IsDir(disk, dir) == dir = <<>> \/ dir \in disk.dirs

IsFile(disk, path) == path \in DOMAIN disk.files

\* os.makedirs(dir, exist_ok=True), dir not empty
MakeDirs(disk, dir) == [disk EXCEPT !.dirs = disk.dirs \cup {dir}]

\* open(path, "w") and the writes that follow: the file is created or replaced
WriteFile(disk, path, file) == [disk EXCEPT !.files = (path :> file) @@ disk.files]

\* the values of a row dict in the order of fieldnames
RowValues(r) ==
  <<r.timestamp, r.X1_occupancy, r.X2_temp_out, r.X2_temp_pressure, r.X3_open,
    r.X4_building_factor, r.X5_availability, r.M1_activation, r.Y_kwh>>

\* write_csv(rows, out_path): the exception raised ("none" when it returns)
\* and the file system it leaves; os.makedirs("") raises FileNotFoundError
\* before the file is opened
write_csv(rs, out_path, disk) ==
  IF dirname(out_path) = <<>>
  THEN [raised |-> "FileNotFoundError", fs |-> disk]
  ELSE LET fieldnames == IF rs # <<>> THEN RowKeys ELSE <<>>
       IN  [raised |-> "none",
            fs |-> WriteFile(MakeDirs(disk, dirname(out_path)), out_path,
                             File(fieldnames, [i \in 1..Len(rs) |-> RowValues(rs[i])]))]

\* no write_csv call yet
NoCall == [path |-> <<>>, raised |-> "none"]

\* ----------------------------------------------------- feature builder
\* a cell of a DataFrame: a float or NaN
Num(x) == [nan |-> FALSE, v |-> x]
NaN == [nan |-> TRUE, v |-> 0]

\* cfg.tz = None
NoTz == ""

\* FeatureConfig: freq in minutes ("1H" is 60)
DefaultFeatureConfig ==
  [freq |-> 60, tz |-> NoTz, comfort_low |-> Dec(20, 0), comfort_high |-> Dec(23, 0),
   add_y_lags |-> TRUE, y_lags |-> <<1, 24>>]

FeatureConfigs ==
  {[DefaultFeatureConfig EXCEPT !.freq = f, !.add_y_lags = a, !.y_lags = l] :
     f \in {60, 120}, a \in BOOLEAN, l \in {<<1, 24>>, <<1, 2>>}}
  \cup {[DefaultFeatureConfig EXCEPT !.tz = "UTC"]}

\* Series.clip(lower=0)
ClipLower0(x) == IF x < 0 THEN 0 ELSE x

_temp_pressure(temp_out, low, high) == ClipLower0(low - temp_out) + ClipLower0(temp_out - high)

\* Series.astype(int): truncation toward zero
AsInt(x) == IF x >= 0 THEN x \div Scale ELSE -((-x) \div Scale)

\* position of a column in the header of the file
ColumnIndex(header, name) == CHOOSE i \in 1..Len(header) : header[i] = name

\* the columns the builder reads after the index is set
DataColumns == <<"Y_kwh", "X1_occupancy", "X2_temp_out", "X3_open">>

HasColumn(header, name) == \E i \in 1..Len(header) : header[i] = name

\* the lines of the file whose timestamp to_datetime turns into NaT
UnparseableLines(file) ==
  {i \in 1..Len(file.lines) :
     ~ParsesAsDatetime(file.lines[i][ColumnIndex(file.header, "timestamp")])}

\* DatetimeIndex.is_monotonic_increasing
IsMonotonic(tab) == \A i \in 2..Len(tab) : tab[i - 1].ts <= tab[i].ts

\* r placed after the rows of a sorted table that are not later than it
InsertByTs(sorted, r) ==
  LET n == Cardinality({k \in 1..Len(sorted) : sorted[k].ts <= r.ts})
  IN  SubSeq(sorted, 1, n) \o <<r>> \o SubSeq(sorted, n + 1, Len(sorted))

RECURSIVE SortFirst(_, _)
SortFirst(tab, n) == IF n = 0 THEN <<>> ELSE InsertByTs(SortFirst(tab, n - 1), tab[n])

\* df.sort_index(): the rows by ascending timestamp, a monotonic index is
\* left as it is; rows of equal timestamp keep the order of the file (the
\* per-bin means taken next do not depend on their order)
SortIndex(tab) == IF IsMonotonic(tab) THEN tab ELSE SortFirst(tab, Len(tab))

\* lines 24 and 50-55: the frame indexed by parsed timestamp and sorted by
\* it, with the renamed columns; tz_localize (line 28) keeps the wall
\* clock time of every row, so the index values are those of the naive index
StandardizedTable(file, fc) ==
  LET col(line, name) == line[ColumnIndex(file.header, name)]
  IN  SortIndex(
        [i \in 1..Len(file.lines) |->
          [ts |-> ToDatetime(col(file.lines[i], "timestamp")),
           Y_kwh |-> col(file.lines[i], "Y_kwh"),
           X1_occupancy_proxy |-> col(file.lines[i], "X1_occupancy"),
           X2_temp_out |-> col(file.lines[i], "X2_temp_out"),
           X2_temp_pressure |-> _temp_pressure(col(file.lines[i], "X2_temp_out"),
                                               fc.comfort_low, fc.comfort_high),
           X3_open |-> AsInt(col(file.lines[i], "X3_open")) * Scale]])

RECURSIVE SumOf(_, _)
SumOf(vals, n) == IF n = 0 THEN 0 ELSE vals[n] + SumOf(vals, n - 1)

\* the mean of a group of floats; NaN for an empty group
MeanOf(vals) ==
  IF vals = <<>> THEN NaN
  ELSE LET s == SumOf(vals, Len(vals))
           n == Len(vals)
       IN  Num(IF s >= 0 THEN (2 * s + n) \div (2 * n) ELSE -((2 * (-s) + n) \div (2 * n)))

\* out.resample(freq).mean(): one row per bin of freq minutes from the bin
\* of the first row to the bin of the last, labelled by the start of the bin
Resample(tab, freq) ==
  IF tab = <<>> THEN <<>>
  ELSE
    LET width == freq * 60
        bin(r) == r.ts \div width
        first == bin(tab[1])
        last == bin(tab[Len(tab)])
        group(b) == SelectSeq(tab, LAMBDA r : bin(r) = b)
        column(g, name) == [k \in 1..Len(g) |-> g[k][name]]
    IN  [j \in 1..(last - first + 1) |->
          LET g == group(first + j - 1)
          IN  [ts |-> (first + j - 1) * width,
               Y_kwh |-> MeanOf(column(g, "Y_kwh")),
               X1_occupancy_proxy |-> MeanOf(column(g, "X1_occupancy_proxy")),
               X2_temp_out |-> MeanOf(column(g, "X2_temp_out")),
               X2_temp_pressure |-> MeanOf(column(g, "X2_temp_pressure")),
               X3_open |-> MeanOf(column(g, "X3_open"))]]

\* the shift taken forward in time
ShiftForward(tab, i, lag) ==
  IF i + lag >= 1 /\ i + lag <= Len(tab) THEN tab[i + lag].Y_kwh ELSE NaN

\* out["Y_kwh"].shift(lag), at row i
Shift(tab, i, lag) == IF i - lag >= 1 /\ i - lag <= Len(tab) THEN tab[i - lag].Y_kwh ELSE NaN

\* the lag columns added to row i: lag -> cell
LagColumns(tab, i, fc) ==
  IF fc.add_y_lags
  THEN [lag \in {fc.y_lags[k] : k \in 1..Len(fc.y_lags)} |-> Shift(tab, i, lag)]
  ELSE <<>>

WithLags(tab, fc) ==
  [i \in 1..Len(tab) |->
    [ts |-> tab[i].ts, Y_kwh |-> tab[i].Y_kwh,
     X1_occupancy_proxy |-> tab[i].X1_occupancy_proxy,
     X2_temp_out |-> tab[i].X2_temp_out, X2_temp_pressure |-> tab[i].X2_temp_pressure,
     X3_open |-> tab[i].X3_open, lags |-> LagColumns(tab, i, fc)]]

HasNaN(r) ==
  \/ r.Y_kwh.nan \/ r.X1_occupancy_proxy.nan \/ r.X2_temp_out.nan
  \/ r.X2_temp_pressure.nan \/ r.X3_open.nan
  \/ \E lag \in DOMAIN r.lags : r.lags[lag].nan

\* out.dropna()
DropNa(tab) == SelectSeq(tab, LAMBDA r : ~HasNaN(r))

\* the name of the column of lag k
LagName(lag) ==
  CASE lag = 1 -> "Y_lag_1"
    [] lag = 2 -> "Y_lag_2"
    [] lag = 24 -> "Y_lag_24"

\* the columns of the table returned, the index first
FeatureHeader(fc) ==
  <<"timestamp", "Y_kwh", "X1_occupancy_proxy", "X2_temp_out", "X2_temp_pressure", "X3_open">>
  \o (IF fc.add_y_lags THEN [k \in 1..Len(fc.y_lags) |-> LagName(fc.y_lags[k])] ELSE <<>>)

\* the index cell of a row as to_csv writes it: the date and time, followed
\* by the UTC offset when the index has a time zone
IndexCell(ts, tz) == DatetimeOf(ts) \o (IF tz = NoTz THEN <<>> ELSE <<"+00:00">>)

\* out.to_csv(path_out, index=True): the file of the table (no NaN is left
\* after dropna)
ToCsv(tab, fc) ==
  File(FeatureHeader(fc),
       [i \in 1..Len(tab) |->
         <<IndexCell(tab[i].ts, fc.tz), tab[i].Y_kwh.v, tab[i].X1_occupancy_proxy.v,
           tab[i].X2_temp_out.v, tab[i].X2_temp_pressure.v, tab[i].X3_open.v>>
         \o (IF fc.add_y_lags
             THEN [k \in 1..Len(fc.y_lags) |-> tab[i].lags[fc.y_lags[k]].v]
             ELSE <<>>)])

\* the result of a call that raised: nothing returned, the disk as it was
Raised(exc, disk) ==
  [raised |-> exc, tz |-> NoTz, resampled |-> <<>>, out |-> <<>>, fs |-> disk]

\* build_from_simulated(path_in, path_out, cfg): the exception raised, the
\* time zone of the index, the resampled table, the table returned and the
\* file system left.  pd.read_csv raises FileNotFoundError when there is no
\* file at path_in and EmptyDataError on a file without columns, df[ts_col]
\* and df[name] raise KeyError on a missing column, _ensure_datetime_index
\* raises ValueError on a timestamp that does not parse, and to_csv raises
\* OSError, after the table is computed, when the directory of path_out
\* does not exist; otherwise the file at path_out is created or replaced,
\* path_in included.  The timestamps of the files carry no UTC offset, so
\* the parsed index is naive and a cfg.tz given is applied by tz_localize.
build_from_simulated(p_in, p_out, fc, disk) ==
  IF ~IsFile(disk, p_in) THEN Raised("FileNotFoundError", disk)
  ELSE
    LET file == disk.files[p_in]
    IN  IF file.header = <<>> THEN Raised("EmptyDataError", disk)
        ELSE IF ~HasColumn(file.header, "timestamp") THEN Raised("KeyError", disk)
        ELSE IF UnparseableLines(file) # {} THEN Raised("ValueError", disk)
        ELSE IF \E k \in 1..Len(DataColumns) : ~HasColumn(file.header, DataColumns[k])
        THEN Raised("KeyError", disk)
        ELSE LET resampled == Resample(StandardizedTable(file, fc), fc.freq)
                 out == DropNa(WithLags(resampled, fc))
             IN  IF ~IsDir(disk, dirname(p_out)) THEN Raised("OSError", disk)
                 ELSE [raised |-> "none", tz |-> fc.tz, resampled |-> resampled,
                       out |-> out, fs |-> WriteFile(disk, p_out, ToCsv(out, fc))]

NoBuild == [raised |-> "none", tz |-> NoTz, resampled |-> <<>>, out |-> <<>>]

\* a line of a simulator file written by hand, with its timestamp cell
ForeignLine(stamp, y_kwh) ==
  <<stamp, Dec(5, 0), Dec(4, 0), Dec(16, 0), Scale, Dec(1, 100), Dec(1, 100), Dec(1, 0), y_kwh>>

\* a timestamp cell that does not parse: month 13
BadTimestamp == <<2025, 13, 1, 0, 0, 0>>

\* the disk before the program runs: a directory raw with a file whose
\* lines are out of order and leave the hour 02:00 empty, and a file with
\* a damaged timestamp
InitialDisk ==
  [dirs |-> {<<"raw">>},
   files |->
     (<<"raw", "unsorted.csv">> :>
        File(RowKeys, <<ForeignLine(<<2025, 1, 1, 3, 0, 0>>, Dec(3, 0)),
                        ForeignLine(<<2025, 1, 1, 1, 0, 0>>, Dec(1, 0)),
                        ForeignLine(<<2025, 1, 1, 0, 0, 0>>, Dec(0, 500))>>))
     @@
     (<<"raw", "damaged.csv">> :>
        File(RowKeys, <<ForeignLine(<<2025, 1, 1, 0, 0, 0>>, Dec(3, 0)),
                        ForeignLine(BadTimestamp, Dec(1, 0))>>))]

\* the calls of build_from_simulated made once write_csv left a file at
\* sim_path: every configuration on that file, written next to it; and,
\* without lag columns, every file (one of them missing) written next to
\* the simulator file, into a directory that does not exist, and over the
\* file read
BuildCalls(sim_path) ==
  {[path_in |-> sim_path, path_out |-> <<"data", "features.csv">>, cfg |-> fc] :
     fc \in FeatureConfigs}
  \cup
  UNION {{[path_in |-> p, path_out |-> q,
           cfg |-> [DefaultFeatureConfig EXCEPT !.add_y_lags = FALSE]] :
            q \in {<<"data", "features.csv">>, <<"features", "out.csv">>, p}} :
         p \in {sim_path, <<"raw", "unsorted.csv">>, <<"raw", "damaged.csv">>,
                <<"data", "missing.csv">>}}

Init ==
  /\ cfg \in Configs
  /\ start \in Starts
  /\ pc = "idle"
  /\ call = 0
  /\ rng = NoRng
  /\ times = <<>>
  /\ rows = <<>>
  /\ steps = <<>>
  /\ y_prev = 0
  /\ results = <<>>
  /\ fs = InitialDisk
  /\ csv_call = NoCall
  /\ path_in = <<>>
  /\ path_out = <<>>
  /\ fcfg = DefaultFeatureConfig
  /\ built = NoBuild
  /\ regime = -1

\* simulate(cfg, start), up to the loop
SimulateCall ==
  /\ pc = "idle"
  /\ call < 2
  /\ call' = call + 1
  /\ rng' = Random(cfg.seed)
  /\ times' = generate_time_index(IF start = NoStart THEN DefaultStart ELSE start,
                                  NSteps(cfg), cfg.freq_minutes)
  /\ rows' = <<>>
  /\ steps' = <<>>
  /\ y_prev' = cfg.base_kwh_when_closed
  /\ pc' = "loop"
  /\ UNCHANGED <<cfg, start, results, fs, csv_call, path_in, path_out, fcfg, built, regime>>

\* one iteration of "for ts in times"
SimulateStep ==
  /\ pc = "loop"
  /\ Len(rows) < Len(times)
  /\ LET v == StepValues(cfg, times[Len(rows) + 1], y_prev, rng)
     IN  /\ rows' = Append(rows, RowOf(cfg, v))
         /\ steps' = Append(steps, v)
         /\ y_prev' = v.y_kwh
         /\ rng' = v.rng_out
  /\ UNCHANGED <<cfg, start, pc, call, times, results, fs, csv_call, path_in, path_out, fcfg, built, regime>>

\* return rows
SimulateReturn ==
  /\ pc = "loop"
  /\ Len(rows) = Len(times)
  /\ results' = Append(results, rows)
  /\ pc' = "idle"
  /\ UNCHANGED <<cfg, start, call, rng, times, rows, steps, y_prev, fs, csv_call, path_in, path_out, fcfg, built, regime>>

\* write_csv(rows, out_path) on the rows simulate() returned
WriteCsv ==
  /\ pc = "idle"
  /\ call = 2
  /\ \E out_path \in OutPaths :
       LET r == write_csv(results[1], out_path, fs)
       IN  /\ csv_call' = [path |-> out_path, raised |-> r.raised]
           /\ fs' = r.fs
  /\ pc' = IF csv_call'.raised = "none" THEN "written" ELSE "write_failed"
  /\ UNCHANGED <<cfg, start, call, rng, times, rows, steps, y_prev, results,
                 path_in, path_out, fcfg, built, regime>>

\* build_from_simulated(path_in, path_out, cfg), to_csv included
BuildFromSimulated ==
  /\ pc = "written"
  /\ \E c \in BuildCalls(csv_call.path) :
       LET r == build_from_simulated(c.path_in, c.path_out, c.cfg, fs)
       IN  /\ path_in' = c.path_in
           /\ path_out' = c.path_out
           /\ fcfg' = c.cfg
           /\ built' = [raised |-> r.raised, tz |-> r.tz,
                        resampled |-> r.resampled, out |-> r.out]
           /\ fs' = r.fs
  /\ pc' = IF built'.raised = "none" THEN "built" ELSE "build_failed"
  /\ UNCHANGED <<cfg, start, call, rng, times, rows, steps, y_prev, results, csv_call, regime>>

Next ==
  \/ SimulateCall
  \/ SimulateStep
  \/ SimulateReturn
  \/ WriteCsv
  \/ BuildFromSimulated

Spec == Init /\ [][Next]_vars

\* ------------------------------------------- the regime function alone
\* every minute of the week from Wednesday 2025-01-01 to Tuesday 2025-01-07,
\* at the first and the last second of the minute
ProbeTimes ==
  {[doy |-> d, minute |-> m, second |-> s] :
     d \in 1..7, m \in 0..(MinutesPerDay - 1), s \in {0, 59}}

InitRegime ==
  /\ cfg = DefaultConfig
  /\ start \in ProbeTimes
  /\ pc = "probe"
  /\ call = 0
  /\ rng = NoRng
  /\ times = <<>>
  /\ rows = <<>>
  /\ steps = <<>>
  /\ y_prev = 0
  /\ results = <<>>
  /\ fs = InitialDisk
  /\ csv_call = NoCall
  /\ path_in = <<>>
  /\ path_out = <<>>
  /\ fcfg = DefaultFeatureConfig
  /\ built = NoBuild
  /\ regime = -1

\* simulate_open_regime(ts) on the timestamp drawn
OpenRegimeCall ==
  /\ pc = "probe"
  /\ regime' = simulate_open_regime(start)
  /\ pc' = "probed"
  /\ UNCHANGED <<cfg, start, call, rng, times, rows, steps, y_prev, results,
                 fs, csv_call, path_in, path_out, fcfg, built>>

NextRegime == OpenRegimeCall

SpecRegime == InitRegime /\ [][NextRegime]_vars

\* ============================================================ claims

\* the start the running call uses, in seconds since 2025-01-01T00:00:00
StartSeconds ==
  IF start = NoStart THEN 0
  ELSE ((start.doy - 1) * MinutesPerDay + start.minute) * 60 + start.second

\* C1 (determinism): the second simulate() call with the same config and
\* start returns a list of the same length, equal field for field at every
\* position, to the list the first call returned; while the second call
\* runs, the rows it has are the first rows of the first call's list.
C1_Determinism ==
  /\ Len(results) = 2 =>
       /\ Len(results[1]) = Len(results[2])
       /\ \A i \in 1..Len(results[1]) :
            \A k \in 1..Len(RowKeys) : RowValues(results[1][i])[k] = RowValues(results[2][i])[k]
  /\ (call = 2 /\ pc = "loop") =>
       /\ Len(rows) <= Len(results[1])
       /\ \A i \in 1..Len(rows) : rows[i] = results[1][i]

\* two calls returned, with open steps (an occupancy draw) among them
C1_Witness ==
  /\ Len(results) = 2
  /\ Len(results[2]) >= 24
  /\ \E i \in 1..Len(results[2]) : results[2][i].X1_occupancy > 0

\* C2 (time grid): for n_days >= 0 and freq_minutes a divisor of 1440, the
\* list simulate() returns has n_days * (1440 / freq_minutes) records (1440
\* for n_days = 60 and freq_minutes = 60) and the i-th record (from 0)
\* carries start + i * freq_minutes minutes, so consecutive timestamps
\* increase by exactly freq_minutes.
C2_TimeGrid ==
  \A r \in 1..Len(results) :
    (cfg.n_days >= 0 /\ cfg.freq_minutes > 0 /\ 1440 % cfg.freq_minutes = 0) =>
       /\ Len(results[r]) = cfg.n_days * (1440 \div cfg.freq_minutes)
       /\ (cfg.n_days = 60 /\ cfg.freq_minutes = 60) => Len(results[r]) = 1440
       /\ \A i \in 1..Len(results[r]) :
            ToDatetime(results[r][i].timestamp) = StartSeconds + (i - 1) * cfg.freq_minutes * 60
       /\ \A i \in 2..Len(results[r]) :
            ToDatetime(results[r][i].timestamp) - ToDatetime(results[r][i - 1].timestamp)
              = cfg.freq_minutes * 60

\* the grid of SimConfig() returned: 60 days of hours, across the ends of
\* April and May, from a start that is not on the hour
C2_Witness ==
  /\ Len(results) >= 1
  /\ cfg.freq_minutes = 60
  /\ cfg.n_days = 60
  /\ start # NoStart
  /\ Len(results[1]) = 1440
  /\ results[1][1440].timestamp = <<2025, 6, 3, 11, 30, 15>>

\* C3 as stated (inertia boundary, without the floor): with inertia_phi = 1
\* every step after the first outputs the previous output plus its noise
\* draw; with inertia_phi = 0 every step outputs its baseline target plus
\* its noise draw.
C3_AsStated ==
  /\ cfg.inertia_phi = Dec(1, 0) =>
       \A i \in 2..Len(steps) : steps[i].y_kwh = steps[i - 1].y_kwh + steps[i].noise
  /\ cfg.inertia_phi = 0 =>
       \A i \in 1..Len(steps) : steps[i].y_kwh = steps[i].y_det + steps[i].noise

\* C3 (inertia boundary, amended): with inertia_phi = 1 every step outputs
\* max(0, previous output + noise draw), the first step taking
\* base_kwh_when_closed as previous output; with inertia_phi = 0 every step
\* outputs max(0, baseline target + noise draw) whatever the previous
\* output; the record carries that output rounded to 4 decimals.
C3_InertiaBoundary ==
  /\ cfg.inertia_phi = Dec(1, 0) =>
       \A i \in 1..Len(steps) :
         LET prev == IF i = 1 THEN cfg.base_kwh_when_closed ELSE steps[i - 1].y_kwh
             sum == prev + steps[i].noise
         IN  /\ steps[i].y_kwh = (IF sum < 0 THEN 0 ELSE sum)
             /\ rows[i].Y_kwh = Round4(steps[i].y_kwh)
  /\ cfg.inertia_phi = 0 =>
       \A i \in 1..Len(steps) :
         LET sum == steps[i].y_det + steps[i].noise
         IN  /\ steps[i].y_kwh = (IF sum < 0 THEN 0 ELSE sum)
             /\ rows[i].Y_kwh = Round4(steps[i].y_kwh)

\* a run with full memory whose output was floored at 0 in one step and
\* moved by the noise alone in the next
C3_Witness ==
  /\ cfg.inertia_phi = Dec(1, 0)
  /\ \E i \in 2..Len(steps) :
       /\ steps[i - 1].y_kwh = 0
       /\ steps[i - 1].noise < 0
       /\ steps[i].y_kwh > 0
       /\ steps[i].y_det > steps[i].y_kwh

\* C4 (writer on empty input): write_csv called with zero records fails
\* with an error instead of completing and leaving an output file with no
\* usable header.
C4_AsStated ==
  (pc \in {"written", "write_failed"} /\ results[1] = <<>>) =>
    /\ csv_call.raised # "none"
    /\ ~(IsFile(fs, csv_call.path) /\ fs.files[csv_call.path].header = <<>>)

\* write_csv returned from a call with zero records and left a file whose
\* header line has no field, on which build_from_simulated then failed
C4_Witness ==
  /\ pc = "build_failed"
  /\ results[1] = <<>>
  /\ csv_call.raised = "none"
  /\ fs.files[csv_call.path] = File(<<>>, <<>>)
  /\ path_in = csv_call.path
  /\ built.raised = "EmptyDataError"

\* C5 (occupancy bounds): in every record of the running call and of the
\* lists returned, 0 <= X1_occupancy <= 220, and X1_occupancy = 0 when
\* X3_open = 0.
C5_OccupancyBounds ==
  LET ok(r) == /\ 0 <= r.X1_occupancy
               /\ r.X1_occupancy <= 220 * Scale
               /\ r.X3_open = 0 => r.X1_occupancy = 0
  IN  /\ \A i \in 1..Len(rows) : ok(rows[i])
      /\ \A k \in 1..Len(results) : \A i \in 1..Len(results[k]) : ok(results[k][i])

\* a run with an open record whose occupancy the noise took to 0, an
\* open record above 0 and a closed record
C5_Witness ==
  /\ \E i \in 1..Len(rows) : rows[i].X3_open = Scale /\ rows[i].X1_occupancy = 0
  /\ \E i \in 1..Len(rows) : rows[i].X3_open = Scale /\ rows[i].X1_occupancy > 0
  /\ \E i \in 1..Len(rows) : rows[i].X3_open = 0

\* C6 (energy non-negativity): in every record Y_kwh >= 0, and the value
\* every step carries forward as y_prev is >= 0.
C6_EnergyNonNegative ==
  /\ \A i \in 1..Len(rows) : rows[i].Y_kwh >= 0
  /\ \A k \in 1..Len(results) : \A i \in 1..Len(results[k]) : results[k][i].Y_kwh >= 0
  /\ \A i \in 1..Len(steps) : steps[i].y_kwh >= 0
  /\ \A i \in 2..Len(steps) : steps[i].y_prev >= 0
  /\ Len(steps) >= 1 => y_prev >= 0

\* a step whose noise draw took the mix below 0
C6_Witness ==
  \E i \in 1..Len(steps) :
    /\ steps[i].y_kwh = 0
    /\ InertiaMix(cfg.inertia_phi, steps[i].y_prev, steps[i].y_det, steps[i].noise) < 0
    /\ rows[i].Y_kwh = 0

\* C7 (activation bounds): in every record 0 <= M1_activation <= 2.
C7_ActivationBounds ==
  LET ok(r) == 0 <= r.M1_activation /\ r.M1_activation <= 2 * Scale
  IN  /\ \A i \in 1..Len(rows) : ok(rows[i])
      /\ \A k \in 1..Len(results) : \A i \in 1..Len(results[k]) : ok(results[k][i])

\* a run with a record at each end of the range and one inside it
C7_Witness ==
  /\ \E i \in 1..Len(rows) : rows[i].M1_activation = 2 * Scale
  /\ \E i \in 1..Len(rows) : rows[i].M1_activation = 0
  /\ \E i \in 1..Len(rows) : 0 < rows[i].M1_activation /\ rows[i].M1_activation < 2 * Scale

\* the days of the probed week that are Saturday and Sunday: 2025-01-04, -05
WeekendDays == {4, 5}

\* C8 (regime schedule): simulate_open_regime returns 1 exactly when the
\* day is Monday to Friday and 08:00 <= time of day < 22:00, or the day is
\* Saturday or Sunday and 10:00 <= time of day < 18:00, and 0 otherwise;
\* Wednesday 09:00 and Saturday 11:00 are open, Wednesday 23:00, Saturday
\* 09:00 and the closing instants 22:00 and 18:00 are closed.
C8_RegimeSchedule ==
  pc = "probed" =>
    LET weekend == start.doy \in WeekendDays
        open == \/ ~weekend /\ 8 * 60 <= start.minute /\ start.minute < 22 * 60
                \/ weekend /\ 10 * 60 <= start.minute /\ start.minute < 18 * 60
    IN  /\ regime = (IF open THEN 1 ELSE 0)
        /\ (start.doy = 1 /\ start.minute = 9 * 60) => regime = 1
        /\ (start.doy = 1 /\ start.minute = 23 * 60) => regime = 0
        /\ (start.doy = 4 /\ start.minute = 11 * 60) => regime = 1
        /\ (start.doy = 4 /\ start.minute = 9 * 60) => regime = 0
        /\ (~weekend /\ start.minute = 22 * 60) => regime = 0
        /\ (weekend /\ start.minute = 18 * 60) => regime = 0

\* the function applied at the closing instant of a Sunday
C8_Witness ==
  /\ pc = "probed"
  /\ start.doy = 5
  /\ start.minute = 18 * 60
  /\ regime = 0

\* the feature builder ran on hourly simulator output with y_lags = (1, 24)
\* and a target frequency of one hour
HourlyLagsCase ==
  /\ pc = "built"
  /\ path_in = csv_call.path
  /\ cfg.freq_minutes = 60
  /\ fcfg.freq = 60
  /\ fcfg.add_y_lags
  /\ fcfg.y_lags = <<1, 24>>

\* C9 (feature table lags): on gap-free hourly simulator output with
\* y_lags = (1, 24) and a frequency of one hour, the table returned is the
\* resampled table minus exactly its first 24 rows, and in every retained
\* row Y_lag_1 is the Y_kwh of the row just before it in the resampled table.
C9_FeatureLags ==
  HourlyLagsCase =>
    /\ Len(built.resampled) = Len(results[1])
    /\ Len(built.out) = Len(built.resampled) - 24
    /\ \A k \in 1..Len(built.out) :
         /\ built.out[k].ts = built.resampled[24 + k].ts
         /\ built.out[k].Y_kwh = built.resampled[24 + k].Y_kwh
         /\ built.out[k].lags[1] = built.resampled[24 + k - 1].Y_kwh
         /\ built.out[k].lags[24] = built.resampled[k].Y_kwh

\* a table returned with rows, from a start that is not on the hour
C9_Witness ==
  /\ HourlyLagsCase
  /\ start # NoStart
  /\ Len(built.out) = 24
  /\ \E k \in 1..Len(built.out) : built.out[k].lags[1].v # built.out[k].Y_kwh.v

\* C10 as stated (draw order): every step of the grid advances the stream
\* by one occupancy draw and then one noise draw, whatever its regime.
C10_AsStated ==
  \A i \in 1..Len(steps) :
    /\ steps[i].rng_occ.pos = steps[i].rng_in.pos + 1
    /\ steps[i].rng_out.pos = steps[i].rng_occ.pos + 1

\* C10 (draw order, amended): one source seeded once from cfg.seed is used
\* through the call and never re-seeded: the first step starts from the
\* freshly seeded generator, each later step from the generator the step
\* before left, and each draw advances it by one deviate; an open step
\* makes one occupancy draw and then one noise draw, a closed step makes
\* the noise draw only, so the noise of a step is the deviate that follows
\* its occupancy draw, if any.
C10_DrawOrder ==
  /\ pc = "loop" =>
       rng = (IF steps = <<>> THEN [seed |-> cfg.seed, pos |-> 0]
              ELSE steps[Len(steps)].rng_out)
  /\ \A i \in 1..Len(steps) :
       LET v == steps[i]
           advanced(g) == [seed |-> cfg.seed, pos |-> g.pos + 1]
       IN  /\ v.rng_in = (IF i = 1 THEN [seed |-> cfg.seed, pos |-> 0]
                          ELSE steps[i - 1].rng_out)
           /\ v.rng_occ = (IF v.x3_open = 1 THEN advanced(v.rng_in) ELSE v.rng_in)
           /\ v.rng_out = advanced(v.rng_occ)
           /\ v.noise = FMul(NormalDeviates(cfg.seed)[v.rng_out.pos], cfg.noise_sigma)

\* a run with a closed step (one draw) followed by an open step (two draws)
C10_Witness ==
  \E i \in 2..Len(steps) :
    /\ steps[i - 1].x3_open = 0
    /\ steps[i - 1].rng_out.pos = steps[i - 1].rng_in.pos + 1
    /\ steps[i].x3_open = 1
    /\ steps[i].rng_out.pos = steps[i].rng_in.pos + 2

====
